---------------------------- MODULE Spec2Model ----------------------------
(***************************************************************************)
(* Booking dispatch engine of mecfinder_backend: the round-robin queue of  *)
(* services/bookingQueue.service.js, the socket handlers of                *)
(* services/socket.service.js that drive it, and cancelBooking of the      *)
(* booking controller, for ONE booking.                                    *)
(*                                                                         *)
(* Node runs one handler at a time and a handler gives up control only at  *)
(* an await on I/O.  Every action below is therefore one synchronous run   *)
(* of the code between two awaits: an event arrives (socket event, timer,  *)
(* HTTP call) or an awaited store call returns, the code runs up to the    *)
(* next await, and the suspended continuation is parked                    *)
(*   - in redisQ   (FIFO: one Redis connection answers in order), or       *)
(*   - in mongoOps (a bag: pooled connections answer in any order).        *)
(* A MongoDB operation is executed by the database (MongoExec) some time   *)
(* before its caller resumes (MongoResume).  A Redis command takes effect  *)
(* and returns, or fails and throws, in RedisReply.                        *)
(*                                                                         *)
(* A store call may fail: a Redis command then throws without effect, a     *)
(* MongoDB operation rejects without having written.                       *)
(*                                                                         *)
(* booking:queue-status notifications are outputs that no state depends on *)
(* and are not recorded.  The keys booking:queue:current:<id> and          *)
(* booking:reject:<id>:<mechanic> are written and deleted but never read:  *)
(* their commands are modelled (they suspend the handler and may throw),   *)
(* their values are not.  The expiry of keys (TTL) is not modelled.        *)
(*                                                                         *)
(* The server process may stop and be started again (StartServer): what it *)
(* held in memory is gone, the two stores keep their contents.             *)
(***************************************************************************)
EXTENDS Integers, Sequences, FiniteSets, Bags, TLC

VARIABLES
    activeQueues,  \* activeQueues.get(bookingId): 0 = no entry, else a heap ref
    heap,          \* the queueData objects ever created (by reference)
    timers,        \* handles of the setTimeout timers that are armed
    booking,       \* the Booking document in MongoDB
    redis,         \* the Redis key booking:queue:<bookingId>
    redisQ,        \* continuations awaiting a Redis reply, oldest first
    mongoOps,      \* continuations awaiting a MongoDB operation
    emitted,       \* what has been emitted over the sockets so far
    starts,        \* number of startQueue calls made for the booking
    won,           \* number of conditional updates that matched so far
    recovery       \* restarts of the process, and what restoreQueues did in it

vars == <<activeQueues, heap, timers, booking, redis, redisQ, mongoOps,
          emitted, starts, won, recovery>>

----------------------------------------------------------------------------
(* Bounds *)

\* longest candidate list handed to startQueue
MaxCands == 2
\* handlers that may be suspended at an await at the same time
MaxTasks == 2
\* startQueue calls for the booking in SpecRestart
MaxStarts == 2
\* times the server process is stopped and started again
MaxCrashes == 1

Null == 0
\* the reason a booking:reject event carries: any string the client sends,
\* 'rejected' when it sends none
Reasons == {"rejected", "timeout"}
\* candidate ids are 1..n; MaxCands + 1 is a mechanic never in the list
Mechanics == 1 .. (MaxCands + 1)
CandidateList(n) == [i \in 1 .. n |-> i]

NoTask == [pc |-> "none", origin |-> "none", m |-> Null, q |-> 0,
           val |-> 0, res |-> "none"]
Task(pc, origin, m, q, val, res) ==
    [pc |-> pc, origin |-> origin, m |-> m, q |-> q, val |-> val, res |-> res]

InFlight == Len(redisQ) + BagCardinality(mongoOps)

\* the process-local memory a synchronous run reads and writes
Mem == [aq |-> activeQueues, heap |-> heap, timers |-> timers, em |-> emitted]

Result(mem, task, chan) == [mem |-> mem, task |-> task, chan |-> chan]

----------------------------------------------------------------------------
(* socket.service.js: emitToMechanic / emitToUser, recorded *)

emitToMechanic(em, m, event) ==
    CASE event = "booking:new" ->
            [em EXCEPT !.new[m] = @ + 1, !.holding = @ \cup {m}]
      [] event = "booking:timeout" ->
            [em EXCEPT !.timeout[m] = @ + 1, !.holding = @ \ {m}]
      [] event = "booking:cancelled" ->
            [em EXCEPT !.cancelled = @ \cup {m}]
      [] OTHER -> em

emitToUser(em, event) ==
    CASE event = "booking:accepted" -> [em EXCEPT !.accepted = @ + 1]
      [] event = "booking:no-mechanic" -> [em EXCEPT !.noMechanic = @ + 1]
      [] OTHER -> em

\* the mechanic has answered the offer (sent booking:accept or booking:reject)
Answered(em, m) == [em EXCEPT !.holding = @ \ {m}]

\* socket.emit('booking:accept:ack' | 'booking:reject:ack', { success }) at
\* the end of the socket handler that origin names; other callers get no ack
socketAck(em, origin, success) ==
    CASE origin = "reject" ->
            [em EXCEPT !.ack = IF success THEN "reject:ok" ELSE "reject:error"]
      [] origin \in {"accept", "notturn", "lost"} ->
            [em EXCEPT !.ack = IF success THEN "accept:ok" ELSE "accept:error"]
      [] OTHER -> em

\* the handler returns (success) or ends in its catch block (~success)
Ack(mem, origin, success) ==
    Result([mem EXCEPT !.em = socketAck(@, origin, success)], NoTask, "none")

----------------------------------------------------------------------------
(* bookingQueue.service.js *)

\* compares with the head of the list instead of mechanics[currentIndex]
FirstMechanic(q) == IF Len(q.mechanics) > 0 THEN q.mechanics[1] ELSE Null

\* mechanics[currentIndex], or Null for undefined
CurrentMechanic(q) ==
    IF q.currentIndex < Len(q.mechanics) THEN q.mechanics[q.currentIndex + 1]
    ELSE Null

\* setTimeout returns a handle no armed or remembered timer has
UsedHandles(mem) ==
    mem.timers \cup {mem.heap[i].timer : i \in 1 .. Len(mem.heap)}
NewHandle(mem) ==
    CHOOSE h \in 1 .. (Cardinality(UsedHandles(mem)) + 1) :
        /\ h \notin UsedHandles(mem)
        /\ \A g \in 1 .. (h - 1) : g \in UsedHandles(mem)

\* clearTimeout(handle): a null or dead handle is a no-op
clearTimeout(ts, handle) == ts \ {handle}

startTimeout(mem) ==
    IF mem.aq = 0 THEN mem
    ELSE LET q == mem.heap[mem.aq]
             cleared == [mem EXCEPT !.timers = clearTimeout(@, q.timer)]
             h == NewHandle(cleared)
         IN [cleared EXCEPT !.timers = @ \cup {h}, !.heap[mem.aq].timer = h]

\* returns without issuing the status write
handleNoMechanicsAvailableSkipped(mem, origin) == Result(mem, NoTask, "none")

\* handleNoMechanicsAvailable up to its await: the status write is issued
handleNoMechanicsAvailable(mem, origin) ==
    Result(mem, Task("nm_write", origin, Null, 0, 0, "pending"), "mongo")

\* sendToNextMechanic up to its first await
sendToNextMechanic(mem, origin) ==
    IF mem.aq = 0 THEN Ack(mem, origin, TRUE)
    ELSE LET q == mem.heap[mem.aq] IN
         IF q.currentIndex >= Len(q.mechanics)
         THEN handleNoMechanicsAvailable(mem, origin)
         ELSE Result([mem EXCEPT !.em = emitToMechanic(@, CurrentMechanic(q), "booking:new")],
                     Task("marker", origin, CurrentMechanic(q), 0, 0, "none"),
                     "redis")

\* the reason text of the booking:timeout payload
withdrawalReason(reason) ==
    IF reason = "timeout" THEN "Time expired" ELSE "Moved to next mechanic"

\* skipToNextMechanic(bookingId, reason) up to its await of saveQueueToRedis
skipToNextMechanic(mem, origin, reason) ==
    IF mem.aq = 0 THEN Ack(mem, origin, TRUE)
    ELSE LET q == mem.heap[mem.aq]
             cur == CurrentMechanic(q)
             em1 == IF cur # Null
                    THEN [emitToMechanic(mem.em, cur, "booking:timeout")
                              EXCEPT !.reason = withdrawalReason(reason)]
                    ELSE mem.em
         IN Result([mem EXCEPT !.timers = clearTimeout(@, q.timer),
                               !.heap[mem.aq].timer = Null,
                               !.heap[mem.aq].currentIndex = @ + 1,
                               !.em = em1],
                   Task("save", origin, Null, mem.aq, q.currentIndex + 1, "none"),
                   "redis")

\* saveQueueToRedis: the value written under booking:queue:<bookingId>,
\* serialised when the command is issued
Snapshot(q, index) == [mechanics |-> q.mechanics, currentIndex |-> index]
\* no such key
NoSnapshot == [mechanics |-> <<>>, currentIndex |-> 0]

\* cleanupQueue up to its first await
cleanupQueue(mem, origin) ==
    LET ts == IF mem.aq = 0 THEN mem.timers
              ELSE clearTimeout(mem.timers, mem.heap[mem.aq].timer)
    IN Result([mem EXCEPT !.timers = ts, !.aq = 0],
              Task("del1", origin, Null, 0, 0, "none"), "redis")

----------------------------------------------------------------------------
(* MongoDB *)

\* an update filtered by _id alone, as findByIdAndUpdate does
MatchesById(b) == TRUE

\* findOneAndUpdate({status in [PENDING, SEARCHING], mechanicId: null}, ...)
Matches(b) == b.status \in {"PENDING", "SEARCHING"} /\ b.mechanicId = Null

\* the update of handleMechanicAccept ($set and $push statusHistory)
QueueAcceptUpdate(b, m) ==
    IF Matches(b)
    THEN [b EXCEPT !.status = "ACCEPTED", !.mechanicId = m, !.history = @ + 1]
    ELSE b

\* the update of the fallback in handleBookingAccept ($set only)
FallbackAcceptUpdate(b, m) ==
    IF Matches(b)
    THEN [b EXCEPT !.status = "ACCEPTED", !.mechanicId = m]
    ELSE b

\* findByIdAndUpdate(bookingId, {$set: {status: NO_MECHANIC_AVAILABLE}})
NoMechanicUpdate(b) == [b EXCEPT !.status = "NO_MECHANIC_AVAILABLE"]

cancellableStatuses == {"PENDING", "SEARCHING", "ASSIGNED", "ACCEPTED"}

\* the process of the first startServer: restoreQueues not called
NoRecovery ==
    [crashes |-> 0, restores |-> 0, job |-> 0, cursor |-> 0, discarded |-> FALSE]

----------------------------------------------------------------------------
Init ==
    /\ activeQueues = 0
    /\ heap = <<>>
    /\ timers = {}
    /\ booking = [status |-> "SEARCHING", mechanicId |-> Null, history |-> 0]
    /\ redis = [snapshot |-> NoSnapshot]
    /\ redisQ = <<>>
    /\ mongoOps = EmptyBag
    /\ emitted = [new |-> [m \in Mechanics |-> 0],
                  timeout |-> [m \in Mechanics |-> 0],
                  cancelled |-> {},
                  holding |-> {},
                  accepted |-> 0,
                  noMechanic |-> 0,
                  ack |-> "none",
                  reason |-> "none"]
    /\ starts = 0
    /\ won = 0
    /\ recovery = NoRecovery

\* a synchronous run ends: its memory is written back and its continuation,
\* if any, is parked; rq and mo are the channels without the resumed task
Apply(r, rq, mo) ==
    /\ activeQueues' = r.mem.aq
    /\ heap' = r.mem.heap
    /\ timers' = r.mem.timers
    /\ emitted' = r.mem.em
    /\ redisQ' = IF r.chan = "redis" THEN Append(rq, r.task) ELSE rq
    /\ mongoOps' = IF r.chan = "mongo" THEN mo (+) SetToBag({r.task}) ELSE mo

\* startQueue(booking, nearbyMechanics) with n candidates, up to its await
startQueue(n) ==
    /\ InFlight < MaxTasks
    /\ starts' = starts + 1
    /\ UNCHANGED <<booking, redis, won, recovery>>
    /\ IF n = 0
       THEN Apply(handleNoMechanicsAvailable(Mem, "start"), redisQ, mongoOps)
       ELSE LET queueData == [mechanics |-> CandidateList(n),
                              currentIndex |-> 0, timer |-> Null]
                mem == [Mem EXCEPT !.heap = Append(@, queueData),
                                   !.aq = Len(heap) + 1]
            IN Apply(Result(mem, Task("save", "start", Null, Len(heap) + 1, 0, "none"), "redis"),
                     redisQ, mongoOps)

\* createBooking: the one call the booking controller makes per booking
StartQueue == \E n \in 0 .. MaxCands : starts = 0 /\ startQueue(n)

\* a further startQueue for the same bookingId
StartQueueAgain ==
    \E n \in 1 .. MaxCands : starts >= 1 /\ starts < MaxStarts /\ startQueue(n)

\* the setTimeout callback of startTimeout runs:
\* skipToNextMechanic(bookingId, 'timeout')
TimerFire ==
    \E h \in timers :
        /\ InFlight < MaxTasks
        /\ Apply(skipToNextMechanic([Mem EXCEPT !.timers = @ \ {h}], "timer", "timeout"),
                 redisQ, mongoOps)
        /\ UNCHANGED <<booking, redis, starts, won, recovery>>

\* socket event booking:reject { reason } from mechanic m: handleBookingReject
\* -> handleMechanicReject up to its await; the continuation keeps the reason
BookingReject(m, reason) ==
        /\ InFlight < MaxTasks
        /\ starts >= 1
        /\ LET mem == [Mem EXCEPT !.em = Answered(@, m)] IN
           IF activeQueues # 0 /\ CurrentMechanic(heap[activeQueues]) = m
           THEN Apply(Result(mem, Task("rejrec", "reject", m, 0, 0, reason), "redis"),
                      redisQ, mongoOps)
           ELSE Apply(Ack(mem, "reject", TRUE), redisQ, mongoOps)
        /\ UNCHANGED <<booking, redis, starts, won, recovery>>

\* socket event booking:accept from mechanic m on this process:
\* handleBookingAccept -> handleMechanicAccept up to the await of the update,
\* or, on { success: false }, on to the fallback update
BookingAccept(m) ==
        /\ InFlight < MaxTasks
        /\ starts >= 1
        /\ LET mem == [Mem EXCEPT !.em = Answered(@, m)] IN
           IF activeQueues = 0
           THEN Apply(Result(mem, Task("fb_cas", "accept", m, 0, 0, "pending"), "mongo"),
                      redisQ, mongoOps)
           ELSE IF CurrentMechanic(heap[activeQueues]) # m
           THEN Apply(Result(mem, Task("fb_cas", "notturn", m, 0, 0, "pending"), "mongo"),
                      redisQ, mongoOps)
           ELSE Apply(Result([mem EXCEPT !.timers =
                                  clearTimeout(@, heap[activeQueues].timer)],
                             Task("q_cas", "accept", m, activeQueues, 0, "pending"),
                             "mongo"),
                      redisQ, mongoOps)
        /\ UNCHANGED <<booking, redis, starts, won, recovery>>

\* booking:accept handled by another server process, whose activeQueues has
\* no entry for the booking: "Queue not found", then the fallback update
BookingAcceptElsewhere(m) ==
        /\ InFlight < MaxTasks
        /\ starts >= 1
        /\ emitted' = Answered(emitted, m)
        /\ mongoOps' = mongoOps (+)
               SetToBag({Task("fb_cas", "accept", m, 0, 0, "pending")})
        /\ UNCHANGED <<activeQueues, heap, timers, booking, redis, redisQ, starts, won,
                     recovery>>

\* cancelBooking: findOne, the status check and updateStatus('CANCELLED') up
\* to the await of save()
CancelBooking ==
    /\ InFlight < MaxTasks
    /\ starts >= 1
    /\ booking.status \in cancellableStatuses
    /\ mongoOps' = mongoOps (+)
           SetToBag({Task("cx_write", "cancel", Null, 0, 0, "pending")})
    /\ UNCHANGED <<activeQueues, heap, timers, booking, redis, redisQ,
                   emitted, starts, won, recovery>>

\* what findOneAndUpdate hands back: the document, or null when none matched
Returned(b) == IF Matches(b) THEN "ok" ELSE "lost"

\* the database executes the pending operation t (ok), or the operation
\* fails without having written and its promise rejects (~ok)
MongoExecute(t, ok) ==
        /\ t.res = "pending"
        /\ LET rest == mongoOps (-) SetToBag({t})
               failed == rest (+) SetToBag({[t EXCEPT !.res = "error"]})
           IN
           CASE t.pc = "q_cas" ->
                  /\ booking' = IF ok THEN QueueAcceptUpdate(booking, t.m) ELSE booking
                  /\ won' = IF booking' # booking THEN won + 1 ELSE won
                  /\ mongoOps' = IF ok THEN rest (+) SetToBag({[t EXCEPT !.res = Returned(booking)]})
                                 ELSE failed
             [] t.pc = "fb_cas" ->
                  /\ booking' = IF ok THEN FallbackAcceptUpdate(booking, t.m) ELSE booking
                  /\ won' = IF booking' # booking THEN won + 1 ELSE won
                  /\ mongoOps' = IF ok THEN rest (+) SetToBag({[t EXCEPT !.res = Returned(booking)]})
                                 ELSE failed
             [] t.pc = "nm_write" ->
                  /\ booking' = IF ok THEN NoMechanicUpdate(booking) ELSE booking
                  /\ won' = won
                  /\ mongoOps' = IF ok THEN rest (+) SetToBag({[t EXCEPT !.res = "ok"]})
                                 ELSE failed
             [] t.pc = "cx_write" ->
                  /\ booking' = IF ok THEN [booking EXCEPT !.status = "CANCELLED"] ELSE booking
                  /\ won' = won
                  /\ mongoOps' = rest
             [] t.pc = "rq_find" ->
                  \* Booking.findById of restoreQueues reads the document
                  /\ booking' = booking
                  /\ won' = won
                  /\ mongoOps' = IF ok THEN rest (+) SetToBag({[t EXCEPT !.res = booking.status]})
                                 ELSE failed
        /\ UNCHANGED <<activeQueues, heap, timers, redis, redisQ, emitted, starts,
                       recovery>>

MongoExec == \E t \in BagToSet(mongoOps), ok \in BOOLEAN : MongoExecute(t, ok)

\* for (i = from; i < mechanics.length; i++) emit booking:cancelled
RECURSIVE NotifyOthers(_, _, _)
NotifyOthers(em, q, i) ==
    IF i >= Len(q.mechanics) THEN em
    ELSE NotifyOthers(emitToMechanic(em, q.mechanics[i + 1], "booking:cancelled"), q, i + 1)

\* handleMechanicAccept after the update returned a document; queueData is
\* the object the handler looked up before the await
AcceptWon(mem, t) ==
    LET queueData == mem.heap[t.q]
        em1 == emitToUser(mem.em, "booking:accepted")
        em2 == NotifyOthers(em1, queueData, queueData.currentIndex + 1)
    IN cleanupQueue([mem EXCEPT !.em = em2], t.origin)

\* restores whatever the status of the booking is
RestorableAnyStatus(status, q) == q # 0 /\ status # "error"

\* restoreQueues: if (booking && queueData && booking.status === 'SEARCHING')
Restorable(status, q) == q # 0 /\ status = "SEARCHING"

\* a handler resumes after its MongoDB operation
MongoResume ==
    \E t \in BagToSet(mongoOps) :
        /\ t.res # "pending"
        /\ LET rest == mongoOps (-) SetToBag({t}) IN
           CASE t.pc = "rq_find" ->
                  IF Restorable(t.res, t.q)
                  THEN /\ Apply(sendToNextMechanic([Mem EXCEPT !.aq = t.q], t.origin),
                                redisQ, rest)
                       /\ recovery' = [recovery EXCEPT !.job = t.q, !.cursor = t.val]
                  ELSE /\ Apply(Ack(Mem, t.origin, TRUE), redisQ, rest)
                       /\ recovery' = [recovery EXCEPT !.discarded =
                                           @ \/ (t.q # 0 /\ t.res # "error")]
             [] t.pc # "rq_find" /\ t.res = "error" ->
                  \* the rejection propagates to the caller's catch, if any
                  /\ Apply(Ack(Mem, t.origin, FALSE), redisQ, rest)
                  /\ recovery' = recovery
             [] t.pc = "q_cas" /\ t.res = "ok" ->
                  /\ Apply(AcceptWon(Mem, t), redisQ, rest)
                  /\ recovery' = recovery
             [] t.pc = "q_cas" /\ t.res = "lost" ->
                  \* { success: false, error: 'Booking no longer available' }:
                  \* handleBookingAccept goes on to the fallback update
                  /\ Apply(Result(Mem, Task("fb_cas", "lost", t.m, 0, 0, "pending"), "mongo"),
                           redisQ, rest)
                  /\ recovery' = recovery
             [] t.pc = "fb_cas" /\ t.res = "ok" ->
                  /\ Apply(Ack([Mem EXCEPT !.em = emitToUser(@, "booking:accepted")],
                               t.origin, TRUE), redisQ, rest)
                  /\ recovery' = recovery
             [] t.pc = "fb_cas" /\ t.res = "lost" ->
                  /\ Apply(Ack(Mem, t.origin, FALSE), redisQ, rest)
                  /\ recovery' = recovery
             [] t.pc = "nm_write" /\ t.res = "ok" ->
                  /\ Apply(cleanupQueue([Mem EXCEPT !.em = emitToUser(@, "booking:no-mechanic")],
                                        t.origin),
                           redisQ, rest)
                  /\ recovery' = recovery
        /\ UNCHANGED <<booking, redis, starts, won>>

\* restores the candidate list and starts over at its head
RestoredFromStart(snapshot) ==
    [mechanics |-> snapshot.mechanics, currentIndex |-> 0, timer |-> Null]

\* JSON.parse of the snapshot and { ...queueData, bookingId, booking, timer: null }
Restored(snapshot) ==
    [mechanics |-> snapshot.mechanics, currentIndex |-> snapshot.currentIndex,
     timer |-> Null]

\* the oldest Redis command returns (ok) or throws (~ok)
RedisReturn(ok) ==
    /\ redisQ # <<>>
    /\ LET t == Head(redisQ)
            rq == Tail(redisQ)
        IN CASE t.pc = "save" ->
                  \* saveQueueToRedis catches; sendToNextMechanic follows
                  /\ redis' = IF ok THEN [redis EXCEPT !.snapshot = Snapshot(heap[t.q], t.val)]
                              ELSE redis
                  /\ Apply(sendToNextMechanic(Mem, t.origin), rq, mongoOps)
             [] t.pc = "marker" ->
                  \* a throw leaves sendToNextMechanic before startTimeout
                  /\ redis' = redis
                  /\ Apply(IF ok THEN Ack(startTimeout(Mem), t.origin, TRUE)
                           ELSE Ack(Mem, t.origin, FALSE), rq, mongoOps)
             [] t.pc = "rejrec" ->
                  \* a throw leaves handleMechanicReject before skipToNextMechanic
                  /\ redis' = redis
                  /\ Apply(IF ok THEN skipToNextMechanic(Mem, t.origin, t.res)
                           ELSE Ack(Mem, t.origin, FALSE), rq, mongoOps)
             [] t.pc = "del1" ->
                  /\ redis' = IF ok THEN [redis EXCEPT !.snapshot = NoSnapshot] ELSE redis
                  /\ Apply(IF ok THEN Result(Mem, [t EXCEPT !.pc = "del2"], "redis")
                           ELSE Ack(Mem, t.origin, FALSE), rq, mongoOps)
             [] t.pc = "del2" ->
                  /\ redis' = redis
                  /\ Apply(Ack(Mem, t.origin, ok), rq, mongoOps)
             [] t.pc = "rq_scan" ->
                  \* restoreQueues: the scan finds the key of the snapshot, if
                  \* there is one, and the handler goes on to read it
                  /\ redis' = redis
                  /\ Apply(IF ok /\ redis.snapshot # NoSnapshot
                           THEN Result(Mem, [t EXCEPT !.pc = "rq_get"], "redis")
                           ELSE Ack(Mem, t.origin, ok), rq, mongoOps)
             [] t.pc = "rq_get" ->
                  \* redisService.get hands back the parsed value, or null;
                  \* Booking.findById follows
                  /\ redis' = redis
                  /\ Apply(IF ~ok THEN Ack(Mem, t.origin, FALSE)
                           ELSE IF redis.snapshot = NoSnapshot
                           THEN Result(Mem, Task("rq_find", t.origin, Null, 0, 0, "pending"),
                                       "mongo")
                           ELSE Result([Mem EXCEPT !.heap = Append(@, Restored(redis.snapshot))],
                                       Task("rq_find", t.origin, Null, Len(heap) + 1,
                                            redis.snapshot.currentIndex, "pending"),
                                       "mongo"),
                           rq, mongoOps)
    /\ UNCHANGED <<booking, starts, won, recovery>>

RedisReply == \E ok \in BOOLEAN : RedisReturn(ok)

\* the store effects of the Redis commands cmds, applied oldest first
RECURSIVE Committed(_, _)
Committed(r, cmds) ==
    IF cmds = <<>> THEN r
    ELSE LET t == Head(cmds)
             r1 == CASE t.pc = "save" -> [r EXCEPT !.snapshot = Snapshot(heap[t.q], t.val)]
                     [] t.pc = "del1" -> [r EXCEPT !.snapshot = NoSnapshot]
                     [] OTHER -> r
         IN Committed(r1, Tail(cmds))

\* the server process stops and startServer runs in a new process: the Map,
\* the timers and every suspended handler of the old process are gone; the
\* Redis commands it had sent may still have taken effect, oldest first.
\* startServer connects to MongoDB and Redis, initializes the sockets and
\* listens; it makes no call into bookingQueue.service.js
StartServer ==
    /\ starts >= 1
    /\ recovery.crashes < MaxCrashes
    /\ \E n \in 0 .. Len(redisQ) : redis' = Committed(redis, SubSeq(redisQ, 1, n))
    /\ activeQueues' = 0
    /\ heap' = <<>>
    /\ timers' = {}
    /\ redisQ' = <<>>
    /\ mongoOps' = EmptyBag
    /\ recovery' = [recovery EXCEPT !.crashes = @ + 1, !.restores = 0,
                                    !.job = 0, !.cursor = 0]
    /\ UNCHANGED <<booking, emitted, starts, won>>

\* restoreQueues() up to its first await, the SCAN; called once in a started
\* process, as its comment ("for server restart") intends
RestoreQueues ==
    /\ recovery.crashes >= 1
    /\ recovery.restores = 0
    /\ InFlight < MaxTasks
    /\ redisQ' = Append(redisQ, Task("rq_scan", "restore", Null, 0, 0, "none"))
    /\ recovery' = [recovery EXCEPT !.restores = @ + 1]
    /\ UNCHANGED <<activeQueues, heap, timers, booking, redis, mongoOps,
                   emitted, starts, won>>

\* any authenticated mechanic socket may emit booking:accept and
\* booking:reject for the booking
Next ==
    \/ StartQueue
    \/ TimerFire
    \/ \E m \in Mechanics, reason \in Reasons : BookingReject(m, reason)
    \/ \E m \in Mechanics : BookingAccept(m)
    \/ \E m \in Mechanics : BookingAcceptElsewhere(m)
    \/ CancelBooking
    \/ MongoExec
    \/ MongoResume
    \/ RedisReply

Spec == Init /\ [][Next]_vars

\* the mechanics that have been sent booking:new for the booking
Offered == {m \in Mechanics : emitted.new[m] >= 1}

\* mechanics answer only offers they have received
NextOffered ==
    \/ StartQueue
    \/ TimerFire
    \/ \E m \in Offered, reason \in Reasons : BookingReject(m, reason)
    \/ \E m \in Offered : BookingAccept(m)
    \/ \E m \in Offered : BookingAcceptElsewhere(m)
    \/ CancelBooking
    \/ MongoExec
    \/ MongoResume
    \/ RedisReply

SpecOffered == Init /\ [][NextOffered]_vars

\* every store call succeeds
MongoExecOk == \E t \in BagToSet(mongoOps) : MongoExecute(t, TRUE)
RedisReplyOk == \E ok \in {TRUE} : RedisReturn(ok)

\* the same with both stores available throughout
NextReliable ==
    \/ StartQueue
    \/ TimerFire
    \/ \E m \in Offered, reason \in Reasons : BookingReject(m, reason)
    \/ \E m \in Offered : BookingAccept(m)
    \/ \E m \in Offered : BookingAcceptElsewhere(m)
    \/ CancelBooking
    \/ MongoExecOk
    \/ MongoResume
    \/ RedisReplyOk

SpecReliable == Init /\ [][NextReliable]_vars

\* the queue under timeouts and rejects alone, with startQueue called again
\* for the bookingId while its job is active
NextRestart ==
    \/ StartQueue
    \/ StartQueueAgain
    \/ TimerFire
    \/ \E m \in Offered, reason \in Reasons : BookingReject(m, reason)
    \/ MongoExec
    \/ MongoResume
    \/ RedisReply

SpecRestart == Init /\ [][NextRestart]_vars

\* the queue with the server process stopped and started again
NextStartup ==
    \/ StartQueue
    \/ TimerFire
    \/ \E m \in Offered, reason \in Reasons : BookingReject(m, reason)
    \/ \E m \in Offered : BookingAccept(m)
    \/ CancelBooking
    \/ MongoExec
    \/ MongoResume
    \/ RedisReply
    \/ StartServer

SpecStartup == Init /\ [][NextStartup]_vars

\* the same, with restoreQueues called in the started process
NextRecovery ==
    \/ StartQueue
    \/ TimerFire
    \/ \E m \in Offered, reason \in Reasons : BookingReject(m, reason)
    \/ \E m \in Offered : BookingAccept(m)
    \/ CancelBooking
    \/ MongoExec
    \/ MongoResume
    \/ RedisReply
    \/ StartServer
    \/ RestoreQueues

SpecRecovery == Init /\ [][NextRecovery]_vars

\* createBooking with a candidate list one longer than MaxCands
StartQueueLong == starts = 0 /\ startQueue(MaxCands + 1)

\* the queue of a long candidate list under rejects and timeouts alone
NextAdvance ==
    \/ StartQueueLong
    \/ TimerFire
    \/ \E m \in Offered, reason \in Reasons : BookingReject(m, reason)
    \/ MongoExec
    \/ MongoResume
    \/ RedisReply

SpecAdvance == Init /\ [][NextAdvance]_vars

----------------------------------------------------------------------------
(* Properties *)

RECURSIVE SumOver(_, _)
SumOver(f, S) ==
    IF S = {} THEN 0
    ELSE LET x == CHOOSE y \in S : TRUE IN f[x] + SumOver(f, S \ {x})

\* booking:new events sent so far
Offers == SumOver(emitted.new, Mechanics)

Pending == BagToSet(mongoOps)
IsAccept(t) == t.pc \in {"q_cas", "fb_cas"}

\* this step resumes (takes out of mongoOps) the continuation t; a process
\* stop drops it instead
Resumes(t) ==
    /\ CopiesIn(t, mongoOps') < CopiesIn(t, mongoOps)
    /\ recovery'.crashes = recovery.crashes
\* this step is the database executing t with the given outcome
Executes(t, outcome) ==
    /\ t.res = "pending"
    /\ CopiesIn(t, mongoOps') < CopiesIn(t, mongoOps)
    /\ CopiesIn([t EXCEPT !.res = outcome], mongoOps') >
           CopiesIn([t EXCEPT !.res = outcome], mongoOps)

\* C1: at-most-one acceptance.  Over all accept attempts for the booking,
\* through handleMechanicAccept or through the fallback of
\* handleBookingAccept, on this process or another, at most one conditional
\* update matches; an update that does not match hands back null to its
\* caller and leaves the booking document as it was.
C1_AtMostOneAcceptance ==
    /\ [](won <= 1)
    /\ [][\A t \in Pending :
            /\ IsAccept(t) /\ Executes(t, "lost") => booking' = booking
            /\ IsAccept(t) /\ Executes(t, "ok") =>
                  /\ booking.status \in {"PENDING", "SEARCHING"}
                  /\ booking.mechanicId = Null
                  /\ won = 0
                  /\ booking'.status = "ACCEPTED"
                  /\ booking'.mechanicId = t.m]_vars

\* one attempt has won and a concurrent attempt of another mechanic has
\* been executed and has lost
C1_Witness ==
    /\ won = 1
    /\ \E t \in Pending :
          IsAccept(t) /\ t.res = "lost" /\ t.m # booking.mechanicId
                      /\ booking.status = "ACCEPTED"

\* C2: exclusive offering.  At any instant at most one mechanic holds an
\* active offer for the booking: has been sent booking:new and has since
\* neither been sent booking:timeout nor answered with accept or reject.
C2_ExclusiveOffering == Cardinality(emitted.holding) <= 1

\* C3: an accept from a mechanic who is not mechanics[currentIndex] is
\* answered "not your turn" and never reaches a conditional update that
\* assigns the booking to that mechanic.
C3_NotYourTurnNeverAssigns ==
    \A t \in Pending : ~(t.pc = "fb_cas" /\ t.origin = "notturn" /\ t.res = "ok")

\* C4: advances for one booking are serialized: the cursor is incremented
\* once per offer, so it never runs ahead of the number of offers sent.
C4_OneAdvancePerOffer ==
    activeQueues # 0 => heap[activeQueues].currentIndex <= Offers

\* C5: when the current mechanic's conditional update does not match, the
\* engine advances (currentIndex is incremented) and does not issue a second
\* conditional update for the same accept.
C5_LostAcceptAdvances ==
    [][\A t \in Pending :
          (t.pc = "q_cas" /\ t.res = "lost" /\ Resumes(t)) =>
              /\ heap'[t.q].currentIndex = heap[t.q].currentIndex + 1
              /\ \A u \in BagToSet(mongoOps') : ~(u.pc = "fb_cas" /\ u.origin = "lost")]_vars

\* the requester has been sent booking:accepted or booking:no-mechanic
TerminalSent == emitted.accepted + emitted.noMechanic >= 1

\* C6: no silent hang.  A dispatch that has not yet sent the requester a
\* terminal event can still move on its own: a handler is in progress, a
\* store call is outstanding or a timer is armed.
C6_NoSilentHang ==
    (starts >= 1 /\ ~TerminalSent) => (InFlight > 0 \/ timers # {})

\* C7: a booking whose record is ACCEPTED or CANCELLED is never overwritten
\* with NO_MECHANIC_AVAILABLE.
C7_NoOverwriteOfResolved ==
    [][booking.status \in {"ACCEPTED", "CANCELLED"} =>
          booking'.status # "NO_MECHANIC_AVAILABLE"]_vars

\* C8: ACCEPTED and exhausted are terminal: once the booking is assigned or
\* marked NO_MECHANIC_AVAILABLE no further booking:new is emitted and no
\* cursor advances.
C8_TerminalIsTerminal ==
    [][booking.status \in {"ACCEPTED", "NO_MECHANIC_AVAILABLE"} =>
          /\ emitted'.new = emitted.new
          /\ \A i \in 1 .. Len(heap) : heap'[i].currentIndex = heap[i].currentIndex]_vars

\* C9: startQueue for a bookingId that has an active job is ignored: the
\* job's entry, cursor, candidate list and timer are left as they were.
C9_RestartIgnored ==
    [][(activeQueues # 0 /\ starts' = starts + 1) =>
          /\ activeQueues' = activeQueues
          /\ heap' = heap
          /\ timers' = timers]_vars

\* C10: timeout bound.  While mechanics[k] holds an outstanding offer of an
\* active job and no handler is in progress, the timer of the job is armed,
\* so the job advances without external input.
C10_TimeoutArmed ==
    (/\ activeQueues # 0
     /\ InFlight = 0
     /\ CurrentMechanic(heap[activeQueues]) \in emitted.holding)
        => heap[activeQueues].timer \in timers

\* C11: monotonic cursor.  For every job currentIndex never decreases and
\* always satisfies 0 <= currentIndex <= mechanics.length, so that a job is
\* exhausted after at most mechanics.length + 1 advances.
C11_MonotonicCursor ==
    /\ [](\A i \in 1 .. Len(heap) :
            /\ heap[i].currentIndex >= 0
            /\ heap[i].currentIndex <= Len(heap[i].mechanics))
    /\ [][\A i \in 1 .. Len(heap) :
            i <= Len(heap') => heap'[i].currentIndex >= heap[i].currentIndex]_vars

\* mechanic m is mechanics[currentIndex] of the active job
IsCurrent(m) ==
    /\ activeQueues # 0
    /\ heap[activeQueues].currentIndex < Len(heap[activeQueues].mechanics)
    /\ heap[activeQueues].mechanics[heap[activeQueues].currentIndex + 1] = m

\* the notifications sent so far, without the acks
Notifications ==
    <<emitted.new, emitted.timeout, emitted.cancelled, emitted.accepted,
      emitted.noMechanic>>

\* C12: a booking:reject from a mechanic who is not mechanics[currentIndex],
\* or for a booking with no active job, is a no-op: cursor, timer, snapshot
\* and booking record are unchanged, no store call is made, no notification
\* is emitted, and the mechanic is acked { success: true }.
C12_StaleRejectIsNoOp ==
    [][\A m \in Mechanics, reason \in Reasons :
          (BookingReject(m, reason) /\ ~IsCurrent(m)) =>
              /\ UNCHANGED <<activeQueues, heap, timers, redis, booking,
                             redisQ, mongoOps>>
              /\ Notifications' = Notifications
              /\ emitted'.ack = "reject:ok"]_vars

\* a reject has been acked { success: true } while the first offer of the
\* job still stands: cursor 0, timer armed, nobody sent booking:timeout
C12_Witness ==
    /\ emitted.ack = "reject:ok"
    /\ activeQueues # 0
    /\ heap[activeQueues].currentIndex = 0
    /\ heap[activeQueues].timer \in timers
    /\ \A m \in Mechanics : emitted.timeout[m] = 0

\* startQueue was called with an empty list (the only call that creates no
\* queueData object)
StartedEmpty == starts >= 1 /\ heap = <<>>

After(q, m) ==
    {q.mechanics[j] : j \in {i \in 1 .. Len(q.mechanics) :
                               \E k \in 1 .. (i - 1) : q.mechanics[k] = m}}

\* C14: when the current mechanic accepts and the conditional update
\* matches, the booking becomes ACCEPTED with that mechanic, the requester is
\* sent booking:accepted, exactly the candidates after the accepting one are
\* sent booking:cancelled, and the job is destroyed: no timer stays armed, the
\* entry leaves activeQueues and the deletion of its keys in the store is
\* under way.
C14_AcceptDestroysJob ==
    [][\A t \in Pending :
          /\ (t.pc = "q_cas" /\ Executes(t, "ok")) =>
                booking'.status = "ACCEPTED" /\ booking'.mechanicId = t.m
          /\ (t.pc = "q_cas" /\ t.res = "ok" /\ Resumes(t)) =>
                /\ emitted'.accepted = emitted.accepted + 1
                /\ emitted'.cancelled = emitted.cancelled \cup After(heap[t.q], t.m)
                /\ activeQueues' = 0
                /\ timers' = {}
                /\ \E i \in 1 .. Len(redisQ') : redisQ'[i].pc = "del1"]_vars

\* C15: when the cursor of a job has reached the end of its list the status
\* write is best-effort: whether it succeeds or fails, its return is followed
\* by booking:no-mechanic to the requester and by the teardown of the job.
C15_ExhaustionBestEffort ==
    [][\A t \in Pending :
          (/\ t.pc = "nm_write"
           /\ t.res # "pending"
           /\ activeQueues # 0
           /\ Resumes(t)) =>
              /\ emitted'.noMechanic = emitted.noMechanic + 1
              /\ activeQueues' = 0
              /\ timers' = {}]_vars

\* C16: once cancelBooking has set the booking CANCELLED no booking:new is
\* sent for it, and when no handler is in progress its job is gone: no entry
\* in activeQueues, no armed timer, no snapshot.
C16_CancelDestroysJob ==
    /\ [][booking.status = "CANCELLED" => emitted'.new = emitted.new]_vars
    /\ []((booking.status = "CANCELLED" /\ InFlight = 0) =>
             /\ activeQueues = 0
             /\ timers = {}
             /\ redis.snapshot = NoSnapshot)

\* C17: after a process start, a snapshot whose booking is still SEARCHING
\* has its job reconstructed: unless a handler is still in progress, the job
\* is in activeQueues.
C17_StartupRecovers ==
    (/\ recovery.crashes >= 1
     /\ redis.snapshot # NoSnapshot
     /\ booking.status = "SEARCHING"
     /\ InFlight = 0) => activeQueues # 0

\* the job in activeQueues is the one restoreQueues put there
RestoredActive == recovery.job # 0 /\ activeQueues = recovery.job

\* C18: recovery idempotence.  A job restored from a snapshot with
\* currentIndex k is never offered to mechanics[0..k-1]: every booking:new
\* sent while the restored job is active goes to an index >= k.
C18_RecoveryIdempotent ==
    [][RestoredActive' =>
          \A m \in Mechanics :
              emitted'.new[m] > emitted.new[m] =>
                  \E i \in (recovery'.cursor + 1) .. Len(heap'[activeQueues'].mechanics) :
                      heap'[activeQueues'].mechanics[i] = m]_vars

\* a job was restored at cursor k >= 1 and its offer is out with a timer
C18_Witness ==
    /\ RestoredActive
    /\ recovery.cursor >= 1
    /\ heap[activeQueues].timer \in timers
    /\ CurrentMechanic(heap[activeQueues]) \in emitted.holding

\* C19: restoreQueues leaves alone a snapshot whose booking is not
\* SEARCHING: no job is put in activeQueues, no timer is armed, nothing is
\* emitted, no store call is made and the booking record is not written.
C19_ResolvedSnapshotSkipped ==
    [][\A t \in Pending :
          (/\ t.pc = "rq_find"
           /\ t.res \notin {"pending", "error", "SEARCHING"}
           /\ Resumes(t)) =>
              /\ UNCHANGED <<activeQueues, timers, booking, redis, redisQ>>
              /\ Notifications' = Notifications
              /\ mongoOps' = mongoOps (-) SetToBag({t})]_vars

\* restoreQueues has skipped a snapshot and has returned
C19_Witness ==
    /\ recovery.discarded
    /\ redis.snapshot # NoSnapshot
    /\ booking.status # "SEARCHING"
    /\ activeQueues = 0
    /\ InFlight = 0

\* C20: every conditional update that matches, on either accept path,
\* appends exactly one entry to statusHistory; one that does not match
\* leaves the booking record as it was.
C20_AcceptanceAudited ==
    [][\A t \in Pending :
          /\ (IsAccept(t) /\ Executes(t, "ok")) =>
                booking'.history = booking.history + 1
          /\ (IsAccept(t) /\ Executes(t, "lost")) => booking' = booking]_vars

\* C21: at every instant the booking has at most one live (armed, not yet
\* fired or cancelled) timer in the process: a timer is cancelled before it is
\* replaced, also when startQueue installs a job record for a bookingId that
\* already has one.
C21_OneLiveTimer == Cardinality(timers) <= 1

\* a job was created for the booking and activeQueues has no entry now
JobRemoved == heap # <<>> /\ activeQueues = 0

\* the step changes no dispatch state, writes nothing to the booking record,
\* emits no notification and issues no store call
Inert ==
    /\ UNCHANGED <<activeQueues, heap, booking>>
    /\ timers' \subseteq timers
    /\ Notifications' = Notifications
    /\ Len(redisQ') <= Len(redisQ)
    /\ \A u \in BagToSet(mongoOps') : CopiesIn(u, mongoOps') <= CopiesIn(u, mongoOps)

\* C22: tearing down a job cancels its timer before the job is removed, and
\* a timeout callback or a suspended advance that resumes after the job has
\* been removed from activeQueues is a no-op: it changes no dispatch state,
\* writes nothing to the booking record and emits no notification.
C22_RemovedJobIsInert ==
    [][/\ (activeQueues # 0 /\ activeQueues' = 0) =>
              heap[activeQueues].timer \notin timers'
       /\ (JobRemoved /\ TimerFire) => Inert
       /\ \A ok \in BOOLEAN :
              (/\ JobRemoved
               /\ redisQ # <<>>
               /\ Head(redisQ).pc \in {"save", "marker", "rejrec"}
               /\ RedisReturn(ok)) => Inert
       /\ \A t \in Pending :
              (/\ JobRemoved
               /\ t.pc = "nm_write"
               /\ t.res # "pending"
               /\ Resumes(t)) => Inert]_vars

\* C23: when a write of dispatch state to the key-value store fails (the
\* snapshot, the current-offer marker or the rejection record), live dispatch
\* continues from memory: after a failed snapshot write the current candidate
\* is still offered, after a failed marker write the timer is still armed,
\* after a failed rejection record the reject still advances the cursor.
C23_StoreFailureTolerated ==
    [][(redisQ # <<>> /\ activeQueues # 0 /\ RedisReturn(FALSE)) =>
          LET t == Head(redisQ)
              q == heap[activeQueues]
          IN /\ (t.pc = "save" /\ q.currentIndex < Len(q.mechanics)) =>
                    emitted'.new[CurrentMechanic(q)] = emitted.new[CurrentMechanic(q)] + 1
             /\ t.pc = "marker" =>
                    /\ activeQueues' = activeQueues
                    /\ heap'[activeQueues].timer \in timers'
             /\ (t.pc = "rejrec" /\ CurrentMechanic(q) = t.m) =>
                    heap'[activeQueues].currentIndex = q.currentIndex + 1]_vars

\* this step advances the active job past a mechanic who holds its cursor
Advances ==
    /\ activeQueues # 0
    /\ activeQueues' = activeQueues
    /\ CurrentMechanic(heap[activeQueues]) # Null
    /\ heap'[activeQueues].currentIndex = heap[activeQueues].currentIndex + 1

\* C24: on a valid advance (reject by the current mechanic or timeout) the
\* timer is cancelled, the just-skipped mechanic is sent exactly one
\* booking:timeout whose reason says time expired if and only if the advance
\* was caused by the timer, the cursor is incremented and the snapshot write
\* is issued, all before the next candidate is offered: booking:new is sent
\* only when a snapshot write returns.
C24_AdvanceInOrder ==
    [][/\ Advances =>
              LET q == heap[activeQueues]
                  cur == CurrentMechanic(q)
              IN /\ q.timer \notin timers'
                 /\ heap'[activeQueues].timer = Null
                 /\ emitted'.timeout = [emitted.timeout EXCEPT ![cur] = @ + 1]
                 /\ (emitted'.reason = "Time expired") <=> TimerFire
                 /\ redisQ' # <<>>
                 /\ redisQ'[Len(redisQ')].pc = "save"
                 /\ redisQ'[Len(redisQ')].val = q.currentIndex + 1
                 /\ emitted'.new = emitted.new
       /\ emitted'.new # emitted.new =>
              /\ redisQ # <<>>
              /\ Head(redisQ).pc = "save"
              /\ \E ok \in BOOLEAN : RedisReturn(ok)]_vars

\* C26: no stalled job.  Whenever the booking has a job in activeQueues with
\* currentIndex < mechanics.length and no handler is in progress, the timer
\* of the job is armed; also after a failed accept and after a failure of
\* the current-offer marker write or of the rejection-record write.
C26_NoStalledJob ==
    \A i \in 1 .. Len(heap) :
        (/\ activeQueues = i
         /\ heap[i].currentIndex < Len(heap[i].mechanics)
         /\ redisQ = <<>>
         /\ mongoOps = EmptyBag) => heap[i].timer \in timers

\* C27: the requester is sent at most one terminal event for the booking:
\* never both booking:accepted and booking:no-mechanic, and neither of them
\* twice, under any interleaving of queue-path accepts, fallback accepts,
\* rejects and timeouts.
C27_OneTerminalEvent ==
    /\ emitted.accepted <= 1
    /\ emitted.noMechanic <= 1
    /\ ~(emitted.accepted >= 1 /\ emitted.noMechanic >= 1)

\* C28: whenever the booking, dispatched through startQueue with a candidate
\* list, becomes ACCEPTED by a booking:accept event, the mechanic it is
\* assigned to is a member of the job's candidate list and is the mechanic
\* who holds the cursor of the job at the time of the update: no socket
\* outside the candidate list is assigned the booking.
C28_AssignedHeldTheOffer ==
    [][\A t \in Pending :
          (IsAccept(t) /\ Executes(t, "ok") /\ heap # <<>>) =>
              /\ \E i \in 1 .. Len(heap[1].mechanics) : heap[1].mechanics[i] = t.m
              /\ IsCurrent(t.m)]_vars

\* C29: candidates are offered in list order without gaps and at most once
\* each: whenever mechanics[k] has been sent booking:new, every mechanics[j]
\* with j < k has been sent booking:new too, and no mechanic has been sent
\* booking:new twice, under any interleaving of rejects and timeouts.
C29_OfferedInOrder ==
    \A i \in 1 .. Len(heap) :
        \A k \in 1 .. Len(heap[i].mechanics) :
            /\ emitted.new[heap[i].mechanics[k]] <= 1
            /\ emitted.new[heap[i].mechanics[k]] >= 1 =>
                   \A j \in 1 .. (k - 1) : emitted.new[heap[i].mechanics[j]] >= 1

\* C30: the booking:accept:ack reports success if and only if the booking
\* record was assigned to the mechanic by this accept: an accept whose
\* conditional update matched is acked { success: true } also when a store
\* call of cleanupQueue fails afterwards, and a fallback accept is acked
\* { success: true } exactly when its update matched.
C30_AckTellsAssignment ==
    [][/\ \A ok \in BOOLEAN :
              (/\ redisQ # <<>>
               /\ Head(redisQ).origin = "accept"
               /\ Head(redisQ).pc \in {"del1", "del2"}
               /\ RedisReturn(ok)
               /\ Len(redisQ') < Len(redisQ)) => emitted'.ack = "accept:ok"
       /\ \A t \in Pending :
              (t.pc = "fb_cas" /\ t.res # "pending" /\ Resumes(t)) =>
                  (emitted'.ack = "accept:ok" <=> t.res = "ok")]_vars

=============================================================================
